---------------------------- MODULE Spec2Model ----------------------------
(***************************************************************************)
(* A model of examples/rust/src/main.rs of stakekit/shield: one call of    *)
(* call_shield against a validator child process.                          *)
(*                                                                         *)
(* The wire text is modelled at the level of JSON tokens: the request is   *)
(* serialized to a token sequence, the child's output is a token sequence  *)
(* that travels through a bounded pipe, and serde_json::from_slice is a    *)
(* recursive-descent parse of the tokens followed by the typed mapping     *)
(* that #[derive(Deserialize)] generates for ShieldResponse.               *)
(***************************************************************************)
EXTENDS Naturals, Sequences, FiniteSets

(***************************************************************************)
(* Bounds of the model.                                                    *)
(***************************************************************************)
\* Capacity, in tokens, of each of the two pipes between parent and child.
PipeCap == 4

(***************************************************************************)
(* JSON tokens.                                                            *)
(***************************************************************************)
Tok(k, v) == [k |-> k, v |-> v]
LBrace == Tok("p", "{")
RBrace == Tok("p", "}")
LBrack == Tok("p", "[")
RBrack == Tok("p", "]")
Comma == Tok("p", ",")
Colon == Tok("p", ":")
TTrue == Tok("l", "true")
TFalse == Tok("l", "false")
TNull == Tok("l", "null")
TNum == Tok("n", "0")
\* A string literal with content s.
Str(s) == Tok("s", s)
\* Insignificant whitespace (the newline that ends a line of output).
White == Tok("w", "\n")
\* Bytes that start no JSON token.
Junk == Tok("x", "?")

(***************************************************************************)
(* Option<T>: None is the empty sequence, Some(x) the sequence <<x>>.      *)
(***************************************************************************)
None == <<>>
Some(x) == <<x>>
is_none(o) == Len(o) = 0
is_some(o) == Len(o) = 1
unwrap(o) == o[1]

(***************************************************************************)
(* ShieldRequest and its derived Serialize.                                *)
(***************************************************************************)
ShieldRequest(op, y, u, a) ==
    [api_version |-> "1.0", operation |-> op,
     yield_id |-> y, unsigned_transaction |-> u, user_address |-> a]

\* One "key":"value" member, preceded by a comma: every member this is used
\* for follows apiVersion.
Member(key, s) == <<Comma, Str(key), Colon, Str(s)>>

\* #[serde(skip_serializing_if = "Option::is_none")]: an Option field is left
\* out when None and written as the string it holds when Some.
OptMember(key, o) == IF is_none(o) THEN <<>> ELSE Member(key, unwrap(o))

\* serde_json::to_string(&request): the fields in declaration order under
\* their camelCase names.
to_string(request) ==
    <<LBrace, Str("apiVersion"), Colon, Str(request.api_version)>>
    \o Member("operation", request.operation)
    \o OptMember("yieldId", request.yield_id)
    \o OptMember("unsignedTransaction", request.unsigned_transaction)
    \o OptMember("userAddress", request.user_address)
    \o <<RBrace>>

(***************************************************************************)
(* JSON values, as serde_json reads them.                                  *)
(***************************************************************************)
JNull == [t |-> "null"]
JBool(b) == [t |-> "bool", b |-> b]
JStr(s) == [t |-> "str", s |-> s]
JNum == [t |-> "num"]
JArr(a) == [t |-> "arr", a |-> a]
\* An object keeps its members in order, as <<key, value>> pairs: a key may
\* occur twice in the text.
JObj(m) == [t |-> "obj", m |-> m]

\* A parse step's result: the value and the index of the next token.
Parsed(v, i) == [ok |-> TRUE, v |-> v, i |-> i]
ParseFail == [ok |-> FALSE, v |-> JNull, i |-> 0]

RECURSIVE ParseValue(_, _)
RECURSIVE ParseMembers(_, _, _)
RECURSIVE ParseElements(_, _, _)

\* The members of an object after its opening brace or after a comma:
\* "key" : value, then a comma and more members, or the closing brace.
ParseMembers(toks, i, acc) ==
    IF i + 1 > Len(toks) \/ toks[i].k # "s" \/ toks[i + 1] # Colon
    THEN ParseFail
    ELSE LET r == ParseValue(toks, i + 2) IN
         IF ~r.ok \/ r.i > Len(toks) THEN ParseFail
         ELSE LET acc2 == Append(acc, <<toks[i].v, r.v>>) IN
              IF toks[r.i] = Comma THEN ParseMembers(toks, r.i + 1, acc2)
              ELSE IF toks[r.i] = RBrace THEN Parsed(JObj(acc2), r.i + 1)
              ELSE ParseFail

\* The elements of an array after its opening bracket or after a comma.
ParseElements(toks, i, acc) ==
    LET r == ParseValue(toks, i) IN
    IF ~r.ok \/ r.i > Len(toks) THEN ParseFail
    ELSE LET acc2 == Append(acc, r.v) IN
         IF toks[r.i] = Comma THEN ParseElements(toks, r.i + 1, acc2)
         ELSE IF toks[r.i] = RBrack THEN Parsed(JArr(acc2), r.i + 1)
         ELSE ParseFail

ParseValue(toks, i) ==
    IF i > Len(toks) THEN ParseFail
    ELSE LET t == toks[i] IN
         IF t = TNull THEN Parsed(JNull, i + 1)
         ELSE IF t = TTrue THEN Parsed(JBool(TRUE), i + 1)
         ELSE IF t = TFalse THEN Parsed(JBool(FALSE), i + 1)
         ELSE IF t.k = "s" THEN Parsed(JStr(t.v), i + 1)
         ELSE IF t.k = "n" THEN Parsed(JNum, i + 1)
         ELSE IF t = LBrace
              THEN IF i + 1 <= Len(toks) /\ toks[i + 1] = RBrace
                   THEN Parsed(JObj(<<>>), i + 2)
                   ELSE ParseMembers(toks, i + 1, <<>>)
         ELSE IF t = LBrack
              THEN IF i + 1 <= Len(toks) /\ toks[i + 1] = RBrack
                   THEN Parsed(JArr(<<>>), i + 2)
                   ELSE ParseElements(toks, i + 1, <<>>)
         ELSE ParseFail

\* Whitespace between tokens is skipped.
SkipWhite(bytes) == SelectSeq(bytes, LAMBDA t : t # White)

\* One JSON value and nothing after it.
ParseJson(bytes) ==
    LET toks == SkipWhite(bytes)
        r == ParseValue(toks, 1)
    IN IF r.ok /\ r.i = Len(toks) + 1 THEN r ELSE ParseFail

(***************************************************************************)
(* #[derive(Deserialize)] for ShieldResponse, ShieldResult and ShieldError.*)
(***************************************************************************)
\* A typed read's result.
Good(x) == [ok |-> TRUE, v |-> x]
Bad == [ok |-> FALSE, v |-> <<>>]

\* bool and String accept exactly a JSON boolean and a JSON string.
DeBool(v) == IF v.t = "bool" THEN Good(v.b) ELSE Bad
DeString(v) == IF v.t = "str" THEN Good(v.s) ELSE Bad

\* Vec<String>: an array whose elements are all strings, in their order.
DeVecString(v) ==
    IF v.t = "arr" /\ \A j \in 1..Len(v.a) : v.a[j].t = "str"
    THEN Good([j \in 1..Len(v.a) |-> v.a[j].s])
    ELSE Bad

\* Option<T>: null is None, anything else must read as a T.
Wrap(r) == IF r.ok THEN Good(Some(r.v)) ELSE Bad
DeOptBool(v) == IF v.t = "null" THEN Good(None) ELSE Wrap(DeBool(v))
DeOptString(v) == IF v.t = "null" THEN Good(None) ELSE Wrap(DeString(v))
DeOptVecString(v) == IF v.t = "null" THEN Good(None) ELSE Wrap(DeVecString(v))

\* The positions of key among an object's members, and the values given
\* for key, in order.
KeyAt(m, key) == {j \in 1..Len(m) : m[j][1] = key}
Values(m, key) ==
    LET hits == SelectSeq(m, LAMBDA kv : kv[1] = key)
    IN [j \in 1..Len(hits) |-> hits[j][2]]

\* A field the struct requires: a member given twice is "duplicate field",
\* one not given is "missing field".
FieldBool(m, key) ==
    LET vs == Values(m, key) IN IF Len(vs) = 1 THEN DeBool(vs[1]) ELSE Bad
FieldString(m, key) ==
    LET vs == Values(m, key) IN IF Len(vs) = 1 THEN DeString(vs[1]) ELSE Bad

\* An Option field: a member given twice is an error too, but a member not
\* given is None.
FieldOptBool(m, key) ==
    LET vs == Values(m, key) IN
    IF Len(vs) > 1 THEN Bad
    ELSE IF Len(vs) = 0 THEN Good(None) ELSE DeOptBool(vs[1])
FieldOptString(m, key) ==
    LET vs == Values(m, key) IN
    IF Len(vs) > 1 THEN Bad
    ELSE IF Len(vs) = 0 THEN Good(None) ELSE DeOptString(vs[1])
FieldOptVecString(m, key) ==
    LET vs == Values(m, key) IN
    IF Len(vs) > 1 THEN Bad
    ELSE IF Len(vs) = 0 THEN Good(None) ELSE DeOptVecString(vs[1])

\* struct ShieldError { code: String, message: String }. A derived struct is
\* read from an object by field name (members it does not know are skipped:
\* no deny_unknown_fields) or from an array by position: serde_json's
\* deserialize_struct hands '[' to the derived visit_seq, which takes one
\* element per field ("invalid length" when one is missing, Option or not)
\* and end_seq rejects any element after the last field.
DeShieldError(v) ==
    LET c == IF v.t = "obj" THEN FieldString(v.m, "code")
             ELSE IF v.t = "arr" /\ Len(v.a) = 2 THEN DeString(v.a[1])
             ELSE Bad
        g == IF v.t = "obj" THEN FieldString(v.m, "message")
             ELSE IF v.t = "arr" /\ Len(v.a) = 2 THEN DeString(v.a[2])
             ELSE Bad
    IN IF c.ok /\ g.ok THEN Good([code |-> c.v, message |-> g.v]) ELSE Bad

\* struct ShieldResult, every field an Option, names in camelCase.
DeShieldResult(v) ==
    LET byName == v.t = "obj"
        byPos == v.t = "arr" /\ Len(v.a) = 4
        iv == IF byName THEN FieldOptBool(v.m, "isValid")
              ELSE IF byPos THEN DeOptBool(v.a[1]) ELSE Bad
        rs == IF byName THEN FieldOptString(v.m, "reason")
              ELSE IF byPos THEN DeOptString(v.a[2]) ELSE Bad
        dt == IF byName THEN FieldOptString(v.m, "detectedType")
              ELSE IF byPos THEN DeOptString(v.a[3]) ELSE Bad
        ys == IF byName THEN FieldOptVecString(v.m, "yieldIds")
              ELSE IF byPos THEN DeOptVecString(v.a[4]) ELSE Bad
    IN IF iv.ok /\ rs.ok /\ dt.ok /\ ys.ok
       THEN Good([is_valid |-> iv.v, reason |-> rs.v,
                  detected_type |-> dt.v, yield_ids |-> ys.v])
       ELSE Bad

DeOptShieldResult(v) ==
    IF v.t = "null" THEN Good(None) ELSE Wrap(DeShieldResult(v))
DeOptShieldError(v) ==
    IF v.t = "null" THEN Good(None) ELSE Wrap(DeShieldError(v))

FieldOptShieldResult(m, key) ==
    LET vs == Values(m, key) IN
    IF Len(vs) > 1 THEN Bad
    ELSE IF Len(vs) = 0 THEN Good(None) ELSE DeOptShieldResult(vs[1])
FieldOptShieldError(m, key) ==
    LET vs == Values(m, key) IN
    IF Len(vs) > 1 THEN Bad
    ELSE IF Len(vs) = 0 THEN Good(None) ELSE DeOptShieldError(vs[1])

\* struct ShieldResponse { ok: bool, result: Option<ShieldResult>,
\* error: Option<ShieldError> }: ok is required, result and error are each
\* read on their own, whatever ok says.
DeShieldResponse(v) ==
    LET byName == v.t = "obj"
        byPos == v.t = "arr" /\ Len(v.a) = 3
        o == IF byName THEN FieldBool(v.m, "ok")
             ELSE IF byPos THEN DeBool(v.a[1]) ELSE Bad
        r == IF byName THEN FieldOptShieldResult(v.m, "result")
             ELSE IF byPos THEN DeOptShieldResult(v.a[2]) ELSE Bad
        e == IF byName THEN FieldOptShieldError(v.m, "error")
             ELSE IF byPos THEN DeOptShieldError(v.a[3]) ELSE Bad
    IN IF o.ok /\ r.ok /\ e.ok
       THEN Good([ok |-> o.v, result |-> r.v, error |-> e.v])
       ELSE Bad

\* serde_json::from_slice::<ShieldResponse>(&output.stdout)
from_slice(bytes) ==
    LET p == ParseJson(bytes) IN
    IF p.ok THEN DeShieldResponse(p.v) ELSE Bad

(***************************************************************************)
(* The inputs of one call: the request and the path handed to call_shield, *)
(* and what the validator at that path writes to its standard output.      *)
(***************************************************************************)
Operations == {"getSupportedYieldIds", "validate"}

\* An optional field as a caller can give it: unset, empty, or a value.
FieldValues == {None, Some(""), Some("x")}

Requests ==
    {ShieldRequest(op, y, u, a) :
        op \in Operations, y \in FieldValues, u \in FieldValues, a \in FieldValues}

\* "./shield" when the binary is in place, and when it is not.
Paths == {"./shield", "./missing"}

\* The token text of "key": followed by a value's tokens.
KV(key, val) == <<Str(key), Colon>> \o val

ErrPayload ==
    <<LBrace>> \o KV("code", <<Str("UNSUPPORTED_YIELD")>>) \o <<Comma>>
    \o KV("message", <<Str("unknown id")>>) \o <<RBrace>>

YieldIdsAB ==
    <<LBrace>> \o KV("yieldIds", <<LBrack, Str("a"), Comma, Str("b"), RBrack>>)
    \o <<RBrace>>

ValidPayload ==
    <<LBrace>> \o KV("isValid", <<TTrue>>) \o <<Comma>>
    \o KV("detectedType", <<Str("STAKE")>>) \o <<RBrace>>

InvalidPayload ==
    <<LBrace>> \o KV("isValid", <<TFalse>>) \o <<Comma>>
    \o KV("reason", <<Str("wrong recipient")>>) \o <<RBrace>>

\* {"ok":<ok>} with the members given after it.
Doc(ok, rest) == <<LBrace>> \o KV("ok", <<ok>>) \o rest \o <<RBrace>>
With(key, val) == <<Comma>> \o KV(key, val)

\* Well-formed answers: result with ok = true, error with ok = false.
WellFormedOutputs ==
    { Doc(TTrue, With("result", YieldIdsAB)) \o <<White>>,
      Doc(TTrue, With("result", ValidPayload)),
      Doc(TTrue, With("result", InvalidPayload)),
      Doc(TFalse, With("error", ErrPayload)) \o <<White>> }

\* Answers that parse as JSON objects with a boolean ok but break the rule
\* that ties result and error to ok.
RuleBreakingOutputs ==
    { Doc(TTrue, <<>>),
      Doc(TFalse, <<>>),
      Doc(TTrue, With("result", <<TNull>>)),
      Doc(TTrue, With("error", ErrPayload)),
      Doc(TFalse, With("result", <<LBrace, RBrace>>)),
      Doc(TTrue, With("result", <<LBrace, RBrace>>) \o With("error", ErrPayload)),
      Doc(TFalse, With("result", <<LBrace, RBrace>>) \o With("error", ErrPayload)) }

\* JSON objects with no ok member, and JSON that is no object.
NoOkOutputs ==
    { <<LBrace, RBrace>>,
      <<LBrace>> \o KV("result", ValidPayload) \o <<RBrace>>,
      <<TNull>>,
      <<Str("ok")>>,
      <<LBrack, RBrack>>,
      <<LBrack, TTrue, Comma>> \o ValidPayload \o <<Comma, TNull, RBrack>> }

\* Text that is not one JSON value.
NotJsonOutputs ==
    { <<>>,
      <<Junk>>,
      Doc(TTrue, With("result", <<LBrace, RBrace>>)) \o <<Junk>>,
      <<LBrace>> \o KV("ok", <<TTrue>>) \o <<Comma, RBrace>>,
      <<LBrace>> \o KV("ok", <<TTrue>>) }

\* Other texts the derived Deserialize has rules for: an ok that is no
\* boolean, a member given twice, a payload of the wrong shape.
OtherOutputs ==
    { Doc(TNull, With("result", <<LBrace, RBrace>>)),
      Doc(TTrue, With("ok", <<TFalse>>)),
      Doc(TFalse, With("error", <<LBrace>> \o KV("code", <<Str("E")>>) \o <<RBrace>>)),
      Doc(TTrue, With("result", <<Str("yes")>>)) }

Outputs ==
    WellFormedOutputs \cup RuleBreakingOutputs \cup NoOkOutputs
    \cup NotJsonOutputs \cup OtherOutputs

(***************************************************************************)
(* One call of call_shield, and the child it spawns.                       *)
(***************************************************************************)
VARIABLES
    shield_path,    \* call_shield's first argument
    request,        \* call_shield's second argument
    pc,             \* the statement of call_shield that runs next
    input,          \* the serialized request
    written,        \* how much of input write_all has put into the pipe
    stdin,          \* the parent's handle on the child's input: none, open, closed
    stdout,         \* the parent's handle on the child's output: none, open, closed
    output,         \* what wait_with_output has read so far (output.stdout)
    ret,            \* call_shield's return value, once it has returned
    child,          \* the child process: none, running, exited (not waited for), reaped
    child_doc,      \* the text the child writes to its output
    child_in,       \* how much of the request the child has read
    child_eof,      \* whether the child has read end-of-input
    child_out,      \* how much of child_doc the child has written
    child_stdin,    \* whether the child holds its input open
    child_stdout,   \* whether the child holds its output open
    child_call,     \* the system call the child is blocked in: none, write
    timer,          \* the caller's timeout for the call: armed, expired
    log             \* history: the transport steps the parent has taken, in order

vars ==
    <<shield_path, request, pc, input, written, stdin, stdout, output, ret,
      child, child_doc, child_in, child_eof, child_out, child_stdin,
      child_stdout, child_call, timer, log>>

parent_vars == <<pc, input, written, stdin, stdout, output, ret, log>>
child_vars ==
    <<child_doc, child_in, child_eof, child_out, child_stdin, child_stdout,
      child_call>>
args == <<shield_path, request>>

Min(a, b) == IF a < b THEN a ELSE b

\* Result<ShieldResponse, Box<dyn Error>>: err names the statement whose `?`
\* returned the error.
Ok(response) == [tag |-> "Ok", err |-> "", response |-> Some(response)]
Err(e) == [tag |-> "Err", err |-> e, response |-> None]
NotReturned == [tag |-> "", err |-> "", response |-> None]

\* Tokens in the pipe to the child's input, and in the pipe from its output.
InPipe == written - child_in
OutPipe == child_out - Len(output)

Init ==
    /\ shield_path \in Paths
    /\ request \in Requests
    /\ pc = "to_string"
    /\ input = <<>>
    /\ written = 0
    /\ stdin = "none"
    /\ stdout = "none"
    /\ output = <<>>
    /\ ret = NotReturned
    /\ child = "none"
    /\ child_doc = <<>>
    /\ child_in = 0
    /\ child_eof = FALSE
    /\ child_out = 0
    /\ child_stdin = FALSE
    /\ child_stdout = FALSE
    /\ child_call = "none"
    /\ timer = "armed"
    /\ log = <<>>

\* line 49: let input = serde_json::to_string(&request)?;
\* (a struct of strings always serializes: the `?` never returns)
Serialize ==
    /\ pc = "to_string"
    /\ input' = to_string(request)
    /\ pc' = "spawn"
    /\ UNCHANGED <<written, stdin, stdout, output, ret, log>>
    /\ UNCHANGED <<args, child, child_vars, timer>>

\* lines 51-54: Command::new(shield_path).stdin(piped).stdout(piped).spawn()
\* succeeds: a child runs, with a pipe to its input and one from its output.
SpawnOk ==
    /\ pc = "spawn"
    /\ shield_path = "./shield"
    /\ child' = "running"
    /\ child_doc' \in Outputs
    /\ child_stdin' = TRUE
    /\ child_stdout' = TRUE
    /\ stdin' = "open"
    /\ stdout' = "open"
    /\ log' = Append(log, "spawn")
    /\ pc' = "write_all"
    /\ UNCHANGED <<input, written, output, ret>>
    /\ UNCHANGED <<child_in, child_eof, child_out, child_call>>
    /\ UNCHANGED <<args, timer>>

\* SpawnErr with the error of spawn() ignored: the call goes on to write.
SpawnErrIgnored ==
    /\ pc = "spawn"
    /\ shield_path # "./shield"
    /\ pc' = "write_all"
    /\ UNCHANGED <<input, written, stdin, stdout, output, ret, log>>
    /\ UNCHANGED <<args, child, child_vars, timer>>

\* lines 51-54: spawn() fails and `?` returns its error.
SpawnErr ==
    /\ pc = "spawn"
    /\ shield_path # "./shield"
    /\ ret' = Err("spawn")
    /\ pc' = "returned"
    /\ UNCHANGED <<input, written, stdin, stdout, output, log>>
    /\ UNCHANGED <<args, child, child_vars, timer>>

\* line 56: write_all puts as much of the rest of input into the pipe as
\* fits, and blocks while the pipe is full; it returns when nothing is left.
WriteAll ==
    /\ pc = "write_all"
    /\ child_stdin
    /\ InPipe < PipeCap
    /\ written' = Min(Len(input), written + (PipeCap - InPipe))
    /\ pc' = IF written' = Len(input) THEN "wait_with_output" ELSE "write_all"
    /\ log' = IF written' = Len(input) THEN Append(log, "written") ELSE log
    /\ UNCHANGED <<input, stdin, stdout, output, ret>>
    /\ UNCHANGED <<args, child, child_vars, timer>>

\* line 56: nobody holds the pipe's read end any more: write fails with
\* EPIPE and `?` returns the error. `child` is dropped: its handles are
\* closed, the process is neither killed nor waited for.
WriteErr ==
    /\ pc = "write_all"
    /\ ~child_stdin
    /\ ret' = Err("write_all")
    /\ stdin' = "closed"
    /\ stdout' = "closed"
    /\ pc' = "returned"
    /\ UNCHANGED <<input, written, output, log>>
    /\ UNCHANGED <<args, child, child_vars, timer>>

\* line 58, wait_with_output: drop(self.stdin.take())
DropStdin ==
    /\ pc = "wait_with_output"
    /\ stdin' = "closed"
    /\ log' = Append(log, "close")
    /\ pc' = "read_to_end"
    /\ UNCHANGED <<input, written, stdout, output, ret>>
    /\ UNCHANGED <<args, child, child_vars, timer>>

\* line 58, wait_with_output: out.read_to_end(&mut stdout) takes what is in
\* the pipe, and blocks while the pipe is empty and the child holds it open.
ReadSome ==
    /\ pc = "read_to_end"
    /\ OutPipe > 0
    /\ output' = output \o SubSeq(child_doc, Len(output) + 1, child_out)
    /\ UNCHANGED <<pc, input, written, stdin, stdout, ret, log>>
    /\ UNCHANGED <<args, child, child_vars, timer>>

\* ReadEof with an empty pipe taken for end-of-file, as a read that does not
\* block would.
ReadEofOnEmptyPipe ==
    /\ pc = "read_to_end"
    /\ OutPipe = 0
    /\ log' = Append(log, "eof")
    /\ pc' = "wait"
    /\ UNCHANGED <<input, written, stdin, stdout, output, ret>>
    /\ UNCHANGED <<args, child, child_vars, timer>>

\* line 58, wait_with_output: read_to_end returns at end-of-file.
ReadEof ==
    /\ pc = "read_to_end"
    /\ OutPipe = 0
    /\ ~child_stdout
    /\ log' = Append(log, "eof")
    /\ pc' = "wait"
    /\ UNCHANGED <<input, written, stdin, stdout, output, ret>>
    /\ UNCHANGED <<args, child, child_vars, timer>>

\* line 58, wait_with_output: self.wait() blocks until the child has exited
\* and collects its status.
Wait ==
    /\ pc = "wait"
    /\ child = "exited"
    /\ child' = "reaped"
    /\ log' = Append(log, "wait")
    /\ pc' = "from_slice"
    /\ UNCHANGED <<input, written, stdin, stdout, output, ret>>
    /\ UNCHANGED <<args, child_vars, timer>>

\* lines 59-61: parse what was read; `?` returns the parse error, otherwise
\* the response is returned as it was read.
Parse ==
    /\ pc = "from_slice"
    /\ LET r == from_slice(output) IN
       ret' = IF r.ok THEN Ok(r.v) ELSE Err("from_slice")
    /\ stdout' = "closed"
    /\ log' = Append(log, "parse")
    /\ pc' = "returned"
    /\ UNCHANGED <<input, written, stdin, output>>
    /\ UNCHANGED <<args, child, child_vars, timer>>

(***************************************************************************)
(* The child: a program the caller does not control. It may read its      *)
(* input, write its text, close either stream and exit, in any order.      *)
(***************************************************************************)
ChildRead ==
    /\ child = "running"
    /\ child_call = "none"
    /\ child_stdin
    /\ InPipe > 0
    /\ child_in' = written
    /\ UNCHANGED <<child_doc, child_eof, child_out, child_stdin, child_stdout>>
    /\ UNCHANGED <<args, parent_vars, child, child_call, timer>>

ChildReadEof ==
    /\ child = "running"
    /\ child_call = "none"
    /\ child_stdin
    /\ ~child_eof
    /\ InPipe = 0
    /\ stdin = "closed"
    /\ child_eof' = TRUE
    /\ UNCHANGED <<child_doc, child_in, child_out, child_stdin, child_stdout>>
    /\ UNCHANGED <<args, parent_vars, child, child_call, timer>>

\* The child writes the next part of its text: as much as fits in the pipe.
ChildWrite ==
    /\ child = "running"
    /\ child_stdout
    /\ stdout = "open"
    /\ child_out < Len(child_doc)
    /\ OutPipe < PipeCap
    /\ child_out' = Min(Len(child_doc), child_out + (PipeCap - OutPipe))
    /\ child_call' = "none"
    /\ UNCHANGED <<child_doc, child_in, child_eof, child_stdin, child_stdout>>
    /\ UNCHANGED <<args, parent_vars, child, timer>>

\* The child's write finds the pipe full: it blocks in the call until the
\* parent reads.
ChildWriteBlocks ==
    /\ child = "running"
    /\ child_call = "none"
    /\ child_stdout
    /\ stdout = "open"
    /\ child_out < Len(child_doc)
    /\ OutPipe = PipeCap
    /\ child_call' = "write"
    /\ UNCHANGED <<child_doc, child_in, child_eof, child_out, child_stdin>>
    /\ UNCHANGED <<child_stdout>>
    /\ UNCHANGED <<args, parent_vars, child, timer>>

ChildCloseStdin ==
    /\ child = "running"
    /\ child_call = "none"
    /\ child_stdin
    /\ child_stdin' = FALSE
    /\ UNCHANGED <<child_doc, child_in, child_eof, child_out, child_stdout>>
    /\ UNCHANGED <<args, parent_vars, child, child_call, timer>>

ChildCloseStdout ==
    /\ child = "running"
    /\ child_call = "none"
    /\ child_stdout
    /\ child_stdout' = FALSE
    /\ UNCHANGED <<child_doc, child_in, child_eof, child_out, child_stdin>>
    /\ UNCHANGED <<args, parent_vars, child, child_call, timer>>

\* Exit closes whatever the child still holds open. A child blocked in a
\* write leaves it only when the parent has closed the pipe's other end.
ChildExit ==
    /\ child = "running"
    /\ child_call = "none" \/ stdout = "closed"
    /\ child' = "exited"
    /\ child_stdin' = FALSE
    /\ child_stdout' = FALSE
    /\ child_call' = "none"
    /\ UNCHANGED <<child_doc, child_in, child_eof, child_out>>
    /\ UNCHANGED <<args, parent_vars, timer>>

(***************************************************************************)
(* The caller's clock. call_shield takes no timeout and starts no timer:   *)
(* the time the caller allows for a call runs out beside it, here while    *)
(* the child is still running.                                             *)
(***************************************************************************)
TimerExpires ==
    /\ timer = "armed"
    /\ pc # "returned"
    /\ child = "running"
    /\ timer' = "expired"
    /\ UNCHANGED <<args, parent_vars, child, child_vars>>

Next ==
    \/ Serialize
    \/ SpawnOk
    \/ SpawnErr
    \/ WriteAll
    \/ WriteErr
    \/ DropStdin
    \/ ReadSome
    \/ ReadEof
    \/ Wait
    \/ Parse
    \/ ChildRead
    \/ ChildReadEof
    \/ ChildWrite
    \/ ChildWriteBlocks
    \/ ChildCloseStdin
    \/ ChildCloseStdout
    \/ ChildExit
    \/ TimerExpires

Spec == Init /\ [][Next]_vars

(***************************************************************************)
(* What main makes of a call's return value (lines 72, 87, 89-99).         *)
(***************************************************************************)
\* `?` ends main with the error; otherwise ok selects the field main reads,
\* and a response whose selected field is None is passed over in silence.
Outcome(r) ==
    IF r.tag = "Err" THEN "Err"
    ELSE LET response == unwrap(r.response) IN
         IF response.ok
         THEN IF is_some(response.result) THEN "Success" ELSE "Nothing"
         ELSE IF is_some(response.error) THEN "ApplicationError" ELSE "Nothing"

(***************************************************************************)
(* The claims.                                                             *)
(***************************************************************************)
Logged(step) == \E j \in 1..Len(log) : log[j] = step
Returned == pc = "returned"
IsPrefix(a, b) == Len(a) <= Len(b) /\ \A j \in 1..Len(a) : a[j] = b[j]

\* A required field of a validate request that is missing or empty.
Unusable(o) == is_none(o) \/ unwrap(o) = ""
InvalidValidate(r) ==
    /\ r.operation = "validate"
    /\ Unusable(r.yield_id) \/ Unusable(r.unsigned_transaction) \/ Unusable(r.user_address)

\* C1: a validate request with yieldId, unsignedTransaction or userAddress
\* missing or empty fails with InvalidRequest, and no child process is ever
\* spawned for it.
C1_InvalidRequestBeforeSpawn ==
    InvalidValidate(request) =>
        /\ child = "none"
        /\ ~Logged("spawn")
        /\ Returned => ret = Err("InvalidRequest")

\* The presence rule of the response schema.
PresenceRule(response) ==
    IF response.ok
    THEN is_some(response.result) /\ is_none(response.error)
    ELSE is_some(response.error) /\ is_none(response.result)

\* C2: every response call_shield returns as a successful parse satisfies the
\* presence rule: result and no error when ok, error and no result when not ok.
C2_ReturnedResponseObeysPresenceRule ==
    ret.tag = "Ok" => PresenceRule(unwrap(ret.response))

\* The two answers the specification gives as examples.
YieldIdsAnswer == Doc(TTrue, With("result", YieldIdsAB)) \o <<White>>
UnsupportedAnswer == Doc(TFalse, With("error", ErrPayload)) \o <<White>>

\* C3: every completed call ends in exactly one of Success, ApplicationError
\* and ProtocolError; well-formed output with ok = true gives Success with the
\* result's fields (yieldIds in the order received) and no error, well-formed
\* output with ok = false gives ApplicationError with that code and message;
\* no error is readable on a Success and no result on an ApplicationError.
C3_ThreeOutcomes ==
    (Returned /\ Logged("parse")) =>
        /\ Outcome(ret) \in {"Success", "ApplicationError", "Err"}
        /\ Outcome(ret) = "Success" => is_none(unwrap(ret.response).error)
        /\ Outcome(ret) = "ApplicationError" => is_none(unwrap(ret.response).result)
        /\ output = YieldIdsAnswer =>
              /\ Outcome(ret) = "Success"
              /\ unwrap(ret.response).result
                   = Some([is_valid |-> None, reason |-> None,
                           detected_type |-> None,
                           yield_ids |-> Some(<<"a", "b">>)])
        /\ output = UnsupportedAnswer =>
              /\ Outcome(ret) = "ApplicationError"
              /\ unwrap(ret.response).error
                   = Some([code |-> "UNSUPPORTED_YIELD", message |-> "unknown id"])

\* Captured output that is not valid JSON, and JSON with no ok field.
NotValidJson(bytes) == ~ParseJson(bytes).ok
JsonWithoutOk(bytes) ==
    LET p == ParseJson(bytes) IN
    p.ok /\ (p.v.t # "obj" \/ KeyAt(p.v.m, "ok") = {})

\* C4: captured output that is not valid JSON (empty output included) or is
\* JSON without the ok field ends the call in a parse error, which is no
\* response at all: never Success, never ApplicationError.
C4_MalformedOutputIsProtocolError ==
    (Returned /\ Logged("parse")
       /\ (NotValidJson(output) \/ JsonWithoutOk(output))) =>
        /\ ret = Err("from_slice")
        /\ Outcome(ret) \notin {"Success", "ApplicationError"}

\* C5: a call whose child has not finished when the caller's timeout expires
\* has the child forcibly terminated and ends in a transport failure; what was
\* captured is never parsed and never gives a response.
C5_TimeoutEndsCall ==
    (Returned /\ timer = "expired") =>
        /\ ret.tag = "Err"
        /\ ret.err \in {"timeout", "write_all"}
        /\ ~Logged("parse")
        /\ child \in {"exited", "reaped"}

\* C6: when the validator cannot be started the call ends with the error of
\* spawn and never blocks: nothing is written, read or waited for, no child
\* exists and no response is returned.
C6_LaunchFailure ==
    shield_path # "./shield" =>
        /\ child = "none" /\ stdin = "none" /\ stdout = "none"
        /\ log = <<>> /\ written = 0 /\ output = <<>>
        /\ ~Returned => ENABLED (Serialize \/ SpawnErr)
        /\ Returned => ret = Err("spawn")

C6_Witness ==
    shield_path # "./shield" /\ Returned /\ ret = Err("spawn")

\* The members of a serialized request named key, and their values' tokens.
ValueToks(toks, key) ==
    {toks[j + 2] : j \in {i \in 1..(Len(toks) - 2) : toks[i] = Str(key) /\ toks[i + 1] = Colon}}
OptionalKeys == {"yieldId", "unsignedTransaction", "userAddress"}

\* C7: in every request written to the child each of yieldId,
\* unsignedTransaction and userAddress is absent or a string, never null, and
\* in a getSupportedYieldIds request all three are absent.
C7_OptionalFieldsOnTheWire ==
    written > 0 =>
        /\ \A key \in OptionalKeys : \A t \in ValueToks(input, key) : t.k = "s"
        /\ request.operation = "getSupportedYieldIds" =>
              \A key \in OptionalKeys : ValueToks(input, key) = {}

\* The transport steps of one call, in the order the claim gives them.
TransportOrder == <<"spawn", "written", "close", "eof", "wait", "parse">>

\* C8: for the one child spawned, the whole serialized request is written,
\* then the input is closed, then the output is read to its end, then the
\* child is waited for; parsing starts only when all the child wrote has been
\* buffered and the child has terminated.
C8_TransportOrder ==
    /\ IsPrefix(log, TransportOrder)
    /\ Logged("written") => written = Len(input) /\ input = to_string(request)
    /\ Logged("close") => stdin = "closed"
    /\ ~Logged("close") => output = <<>>
    /\ Logged("eof") =>
          ~child_stdout /\ output = SubSeq(child_doc, 1, child_out)
    /\ Logged("wait") => child = "reaped"
    /\ (pc = "from_slice" \/ ret.tag = "Ok" \/ ret.err = "from_slice") =>
          Logged("wait") /\ Logged("eof")

C8_Witness ==
    /\ Returned /\ log = TransportOrder
    /\ Len(output) > PipeCap /\ Len(input) > PipeCap

\* C9: call_shield never deadlocks against a child that would run to
\* completion: the parent is never blocked writing the request, before it
\* reads any output, while the child is blocked writing to its full output
\* pipe.
C9_NoWriteWriteDeadlock ==
    ~( /\ pc = "write_all" /\ child_stdin /\ InPipe = PipeCap
       /\ child = "running" /\ child_call = "write" /\ OutPipe = PipeCap )

\* C10: on every return path taken after a successful spawn the child has
\* terminated and been waited for.
C10_NoChildLeftBehind ==
    (Returned /\ Logged("spawn")) => child = "reaped"

=============================================================================
